---- MODULE Spec2Model ----
(***************************************************************************)
(* Model of the capability-table renderer of py-cheriplot.  The repository *)
(* holds two scripts that implement the same pipeline:                     *)
(*   CapabilityClassVis.py      the defensive variant ("ClassVis")         *)
(*   CapabilityVisualization.py the strict variant    ("Visualization")    *)
(* A run is the top-level script executed once: load, group, pre-calculate *)
(* type info, choose the grid, draw every panel, record the axis info,     *)
(* draw the arrows of every type, show the figure.                         *)
(*                                                                         *)
(* Heights are kept in tenths (6 -> 60, 0.6 -> 6, 1.5 -> 15, 10 -> 100) so *)
(* that the float arithmetic of calc_height is exact integer arithmetic.   *)
(* Type keys are Python strings, modelled as sequences of code points so   *)
(* that sorted() is the lexicographic order and "" is the falsy string.    *)
(***************************************************************************)
EXTENDS Integers, Sequences, FiniteSets

VARIABLES variant, file_exists, data, pc, stdout, capabilities, type_caps,
          types, type_info, nrows, ncols, type_axes, rows, empties, draw_i,
          type_axes_info, arrows, arrow_i

vars == <<variant, file_exists, data, pc, stdout, capabilities, type_caps,
          types, type_info, nrows, ncols, type_axes, rows, empties, draw_i,
          type_axes_info, arrows, arrow_i>>

(***************************************************************************)
(* Bounds of the model.                                                    *)
(***************************************************************************)
\* longest input of the small family (arbitrary records)
MaxCaps == 2
\* most distinct types of the wide family (one record per type)
MaxTypes == 7
\* most members of one group in the tall family
MaxCount == 17
\* widest reference range of one group in the tall family
MaxSpan == 7

(***************************************************************************)
(* Program constants.                                                      *)
(***************************************************************************)
\* MAX_SUBPLOT_HEIGHT = 10, in tenths
MAX_SUBPLOT_HEIGHT == 100
\* calc_height: base=6, per_cap=0.6, factor=1.5, in tenths
base_height == 60
height_per_cap == 6
range_factor == 15
\* x_min, x_max = -1, 65
x_min == -1
x_max == 65

(***************************************************************************)
(* Python values as they come out of json.load.                            *)
(***************************************************************************)
PyNone == [kind |-> "none", val |-> 0]
PyInt(n) == [kind |-> "int", val |-> n]
\* a string holding the decimal text of n, e.g. "3"
PyStr(n) == [kind |-> "str", val |-> n]
\* a string that is not the text of an integer, e.g. "0x1f" or ""
PyText == [kind |-> "text", val |-> 0]
\* the float json.load returns for Infinity or 1e999
PyInf == [kind |-> "inf", val |-> 0]

\* Python's int(value): the integer, or the exception it raises
int(value) ==
    CASE value.kind = "int" -> [exc |-> "", val |-> value.val]
      [] value.kind = "str" -> [exc |-> "", val |-> value.val]
      [] value.kind = "text" -> [exc |-> "ValueError", val |-> 0]
      [] value.kind = "none" -> [exc |-> "TypeError", val |-> 0]
      [] value.kind = "inf" -> [exc |-> "OverflowError", val |-> 0]

\* Python's str(value): only an int or the text of an int reads back as one
str(value) ==
    CASE value.kind = "int" -> PyStr(value.val)
      [] value.kind = "str" -> value
      [] OTHER -> PyText

\* Capability._to_int: ValueError and TypeError give None, anything else
\* propagates (kind "raise")
to_int(value) ==
    LET r == int(value)
    IN  IF r.exc = "" THEN PyInt(r.val)
        ELSE IF r.exc \in {"ValueError", "TypeError"} THEN PyNone
        ELSE [kind |-> "raise", val |-> 0]

\* Capability.getAddress
getAddress(cap) == to_int(cap.address)

\* the strict variant's int(str(cap["Address"])) with except ValueError
address_val(cap) ==
    LET r == int(str(cap.address))
    IN  IF r.exc = "" THEN PyInt(r.val) ELSE PyNone

(***************************************************************************)
(* Strings (type keys) and their order.                                    *)
(***************************************************************************)
EmptyStr == <<>>
Chr(c) == <<c>>

Min2(a, b) == IF a < b THEN a ELSE b
Max2(a, b) == IF a > b THEN a ELSE b
SetMin(S) == CHOOSE x \in S : \A y \in S : x <= y
SetMax(S) == CHOOSE x \in S : \A y \in S : x >= y

\* s < t for Python strings: code point by code point, a prefix is smaller
StrLess(s, t) ==
    \E k \in 0..Min2(Len(s), Len(t)) :
        /\ \A j \in 1..k : s[j] = t[j]
        /\ \/ k = Len(s) /\ k < Len(t)
           \/ k < Len(s) /\ k < Len(t) /\ s[k + 1] < t[k + 1]

RECURSIVE SortedStrs(_)
\* sorted(type_caps.keys())
SortedStrs(S) ==
    IF S = {} THEN <<>>
    ELSE LET m == CHOOSE x \in S : \A y \in S \ {x} : StrLess(x, y)
         IN  <<m>> \o SortedStrs(S \ {m})

RECURSIVE SortedInts(_)
\* sorted(set of ints)
SortedInts(S) ==
    IF S = {} THEN <<>>
    ELSE <<SetMin(S)>> \o SortedInts(S \ {SetMin(S)})

Range(f) == {f[i] : i \in DOMAIN f}

(***************************************************************************)
(* Inputs: the content of input.json.                                      *)
(***************************************************************************)
Variants == {"ClassVis", "Visualization"}

Record(typ, ref, addr) == [Type |-> typ, Reference |-> ref, Address |-> addr]

\* type keys of the small family: the empty string (also what ClassVis
\* takes for a record without a Type key), "A" and "B"
SmallTypes == {EmptyStr, Chr(65), Chr(66)}
\* sample reference and address values of the small family
SmallRefInts == {-2, -1, 0}
SmallAddrInts == {-2, 0, 1}

\* The strict variant documents its precondition ("Each capability is
\* expected to have a key Type and a numeric Reference"): it is run on
\* integer references only.
SmallRefs(v) ==
    {PyInt(n) : n \in SmallRefInts}
        \cup (IF v = "ClassVis" THEN {PyNone} ELSE {})

SmallAddrs == {PyStr(n) : n \in SmallAddrInts} \cup {PyText}

SmallRecords(v) ==
    {Record(t, r, a) : t \in SmallTypes, r \in SmallRefs(v), a \in SmallAddrs}

SmallInputs(v) == UNION {[1..n -> SmallRecords(v)] : n \in 1..MaxCaps}

\* n types "A", "B", ... with ranges [1,1], [2,2], ...; one record points
\* at the range of one type
WideInputs ==
    {[k \in 1..n |-> Record(Chr(64 + k), PyInt(k),
                            IF k = src THEN PyStr(a) ELSE PyText)] :
        n \in 1..MaxTypes, src \in 1..MaxTypes, a \in 1..MaxTypes}

\* one type with k members spanning the references 0..r
TallInputs ==
    {[i \in 1..k |-> Record(Chr(65), PyInt(IF i = k THEN r ELSE 0), PyText)] :
        k \in 1..MaxCount, r \in 0..MaxSpan}

\* records of one type whose numbers may be the float infinity
FloatRecords(v) ==
    {Record(Chr(65), r, a) :
        r \in {PyInt(0)} \cup (IF v = "ClassVis" THEN {PyInf} ELSE {}),
        a \in {PyStr(0), PyText, PyInf}}

FloatInputs(v) == UNION {[1..n -> FloatRecords(v)] : n \in 1..MaxCaps}

Inputs(v) == SmallInputs(v) \cup WideInputs \cup TallInputs \cup FloatInputs(v)

(***************************************************************************)
(* Grouping.                                                               *)
(***************************************************************************)
\* Capability(item) / the raw dict of the strict variant
Capability(i, item) ==
    [id |-> i,
     type |-> item.Type,
     reference |-> IF variant = "ClassVis" THEN to_int(item.Reference)
                   ELSE item.Reference,
     address |-> item.Address]

\* the sort key of line 52 / line 30
sort_key(c) ==
    IF variant = "ClassVis"
    THEN (IF c.reference.kind # "none" THEN c.reference.val ELSE -1)
    ELSE c.reference.val

\* one step of a stable descending sort: x goes after every element whose
\* key is >= its own
InsertDesc(s, x) ==
    LET lower == {j \in 1..Len(s) : sort_key(s[j]) < sort_key(x)}
        p == IF lower = {} THEN Len(s) + 1 ELSE SetMin(lower)
    IN  SubSeq(s, 1, p - 1) \o <<x>> \o SubSeq(s, p, Len(s))

RECURSIVE sorted_desc(_)
\* sorted(caps, key=..., reverse=True): stable
sorted_desc(s) ==
    IF s = <<>> THEN <<>>
    ELSE InsertDesc(sorted_desc(SubSeq(s, 1, Len(s) - 1)), s[Len(s)])

\* type_caps.setdefault(cap.type, []).append(cap), in input order
members_of(caps, typ) == SelectSeq(caps, LAMBDA c : c.type = typ)

(***************************************************************************)
(* Range, height, grid.                                                    *)
(***************************************************************************)
get_ref_range(caps) ==
    LET refs == IF variant = "ClassVis"
                THEN {caps[i].reference.val :
                        i \in {j \in 1..Len(caps) : caps[j].reference.kind # "none"}}
                ELSE {caps[i].reference.val : i \in 1..Len(caps)}
    IN  IF variant = "ClassVis"
        THEN <<IF refs # {} THEN SetMin(refs) ELSE 0,
               IF refs # {} THEN SetMax(refs) ELSE 1>>
        ELSE IF Len(caps) = 0 THEN <<0, 1>>
        ELSE <<SetMin(refs), SetMax(refs)>>

\* calc_height with per_cap and factor swapped
calc_height_swapped(min_ref, max_ref, count) ==
    Max2(base_height,
         Max2((max_ref - min_ref) * height_per_cap, count * range_factor))

calc_height(min_ref, max_ref, count) ==
    Max2(base_height,
         Max2((max_ref - min_ref) * range_factor, count * height_per_cap))

\* line 85 / line 102
panel_height(min_ref, max_ref, count) ==
    IF variant = "ClassVis"
    THEN Min2(calc_height(min_ref, max_ref, count), MAX_SUBPLOT_HEIGHT)
    ELSE calc_height(min_ref, max_ref, count)

\* the y_positions dict: reference -> reference
y_positions_of(caps) ==
    LET refs == IF variant = "ClassVis"
                THEN {caps[i].reference.val :
                        i \in {j \in 1..Len(caps) : caps[j].reference.kind # "none"}}
                ELSE {caps[i].reference.val : i \in 1..Len(caps)}
    IN  [r \in refs |-> r]

\* the grid lookup without its 2x2 entry
grid_layout_no_square(n_types) ==
    IF n_types = 1 THEN <<1, 1>>
    ELSE IF n_types = 2 THEN <<1, 2>>
    ELSE IF n_types = 3 THEN <<1, 3>>
    ELSE IF n_types \in {5, 6} THEN <<2, 3>>
    ELSE <<1, n_types>>

grid_layout(n_types) ==
    IF n_types = 1 THEN <<1, 1>>
    ELSE IF n_types = 2 THEN <<1, 2>>
    ELSE IF n_types = 3 THEN <<1, 3>>
    ELSE IF n_types = 4 THEN <<2, 2>>
    ELSE IF n_types \in {5, 6} THEN <<2, 3>>
    ELSE <<1, n_types>>

\* axes.flatten() is row-major: axis i sits in row i \div ncols, column
\* i % ncols.  ax.get_position() gives a box whose x0, x1 grow with the
\* column and do not depend on the row; the centre is kept in units of half
\* a column pitch.
center_x_of(axis) == 2 * (axis % ncols) + 1

(***************************************************************************)
(* The run.                                                                *)
(***************************************************************************)
Init ==
    /\ variant \in Variants
    /\ \/ file_exists = FALSE /\ data = <<>>
       \/ file_exists = TRUE /\ data \in Inputs(variant)
    /\ pc = "load"
    /\ stdout = <<>>
    /\ capabilities = <<>>
    /\ type_caps = <<>>
    /\ types = <<>>
    /\ type_info = <<>>
    /\ nrows = 0
    /\ ncols = 0
    /\ type_axes = <<>>
    /\ rows = <<>>
    /\ empties = <<>>
    /\ draw_i = 0
    /\ type_axes_info = <<>>
    /\ arrows = <<>>
    /\ arrow_i = 0

\* Load without the exit() of the missing-file branch
Load_no_exit ==
    /\ pc = "load"
    /\ IF ~file_exists
       THEN /\ stdout' = Append(stdout, "Error: File not found.")
            /\ pc' = "group"
            /\ UNCHANGED capabilities
       ELSE LET caps == [i \in 1..Len(data) |-> Capability(i, data[i])]
            IN  IF \E i \in 1..Len(caps) : caps[i].reference.kind = "raise"
                THEN /\ pc' = "fault"
                     /\ UNCHANGED <<stdout, capabilities>>
                ELSE /\ capabilities' = caps
                     /\ pc' = "group"
                     /\ UNCHANGED stdout
    /\ UNCHANGED <<variant, file_exists, data, type_caps, types, type_info,
                   nrows, ncols, type_axes, rows, empties, draw_i,
                   type_axes_info, arrows, arrow_i>>

\* lines 39-45 / 12-17
Load ==
    /\ pc = "load"
    /\ IF ~file_exists
       THEN /\ stdout' = Append(stdout, "Error: File not found.")
            /\ pc' = "exited"
            /\ UNCHANGED capabilities
       ELSE LET caps == [i \in 1..Len(data) |-> Capability(i, data[i])]
            IN  IF \E i \in 1..Len(caps) : caps[i].reference.kind = "raise"
                THEN /\ pc' = "fault"
                     /\ UNCHANGED <<stdout, capabilities>>
                ELSE /\ capabilities' = caps
                     /\ pc' = "group"
                     /\ UNCHANGED stdout
    /\ UNCHANGED <<variant, file_exists, data, type_caps, types, type_info,
                   nrows, ncols, type_axes, rows, empties, draw_i,
                   type_axes_info, arrows, arrow_i>>

\* lines 47-53 / 19-33
Group ==
    /\ pc = "group"
    /\ LET keys == {capabilities[i].type : i \in 1..Len(capabilities)}
       IN  /\ type_caps' = [t \in keys |-> sorted_desc(members_of(capabilities, t))]
           /\ types' = SortedStrs(keys)
    /\ pc' = "info"
    /\ UNCHANGED <<variant, file_exists, data, stdout, capabilities, type_info,
                   nrows, ncols, type_axes, rows, empties, draw_i,
                   type_axes_info, arrows, arrow_i>>

\* lines 79-89 / 94-106
PreCalc ==
    /\ pc = "info"
    /\ type_info' =
         [t \in Range(types) |->
            LET caps == type_caps[t]
                rng == get_ref_range(caps)
            IN  [min |-> rng[1], max |-> rng[2],
                 height |-> panel_height(rng[1], rng[2], Len(caps)),
                 caps |-> caps,
                 y_positions |-> y_positions_of(caps)]]
    /\ pc' = "grid"
    /\ UNCHANGED <<variant, file_exists, data, stdout, capabilities, type_caps,
                   types, nrows, ncols, type_axes, rows, empties, draw_i,
                   type_axes_info, arrows, arrow_i>>

\* lines 91-118 / 108-143
Grid ==
    /\ pc = "grid"
    /\ nrows' = grid_layout(Len(types))[1]
    /\ ncols' = grid_layout(Len(types))[2]
    /\ type_axes' = [t \in Range(types) |->
                       (CHOOSE i \in 1..Len(types) : types[i] = t) - 1]
    /\ rows' = [t \in Range(types) |-> <<>>]
    /\ empties' = [t \in Range(types) |-> <<>>]
    /\ pc' = "draw"
    /\ UNCHANGED <<variant, file_exists, data, stdout, capabilities, type_caps,
                   types, type_info, draw_i, type_axes_info, arrows, arrow_i>>

\* the draw_capability calls of one panel, in member order
drawn_rows(info) ==
    LET shown == IF variant = "ClassVis"
                 THEN SelectSeq(info.caps, LAMBDA c : c.reference.kind # "none")
                 ELSE info.caps
    IN  [k \in 1..Len(shown) |->
           [id |-> shown[k].id, y |-> info.y_positions[shown[k].reference.val]]]

\* the empty blocks with range(min, max) for range(min, max + 1)
empty_addresses_short(info) ==
    SortedInts((info.min .. (info.max - 1)) \ Range(info.y_positions))

\* the rosybrown blocks of one panel, in drawing order
empty_addresses(info) ==
    SortedInts((info.min .. info.max) \ Range(info.y_positions))

\* lines 120-131 / 145-160: one iteration of the loop over types
DrawPanel ==
    /\ pc = "draw"
    /\ draw_i < Len(types)
    /\ LET typ == types[draw_i + 1]
           info == type_info[typ]
       IN  /\ rows' = [rows EXCEPT ![typ] = drawn_rows(info)]
           /\ empties' = [empties EXCEPT ![typ] = empty_addresses(info)]
    /\ draw_i' = draw_i + 1
    /\ UNCHANGED <<variant, file_exists, data, pc, stdout, capabilities,
                   type_caps, types, type_info, nrows, ncols, type_axes,
                   type_axes_info, arrows, arrow_i>>

\* lines 133-144 / 162-170
AxisInfo ==
    /\ pc = "draw"
    /\ draw_i = Len(types)
    /\ type_axes_info' =
         [t \in Range(types) |->
            [axis |-> type_axes[t], min |-> type_info[t].min,
             max |-> type_info[t].max, center_x |-> center_x_of(type_axes[t])]]
    /\ pc' = "arrows"
    /\ UNCHANGED <<variant, file_exists, data, stdout, capabilities, type_caps,
                   types, type_info, nrows, ncols, type_axes, rows, empties,
                   draw_i, arrows, arrow_i>>

NotFound == [found |-> FALSE, type |-> EmptyStr]

\* next((t for t in types if min <= addr <= max), None) / the for-break loop
target_type_of(addr) ==
    LET hits == {i \in 1..Len(types) :
                    /\ type_axes_info[types[i]].min <= addr
                    /\ addr <= type_axes_info[types[i]].max}
    IN  IF hits = {} THEN NotFound
        ELSE [found |-> TRUE, type |-> types[SetMin(hits)]]

\* "if not target_type" (ClassVis) / "if target_type is None" (Visualization)
target_skipped(target) ==
    IF variant = "ClassVis"
    THEN ~target.found \/ Len(target.type) = 0
    ELSE ~target.found

\* arrow_sides with "addr <= ref" for "addr < ref"
arrow_sides_le_ref(typ, target, addr, ref) ==
    IF typ = target
    THEN IF addr <= ref
         THEN [src_x |-> -2, tgt_x |-> -2, style |-> "arc3, rad=0.3"]
         ELSE [src_x |-> x_max + 1, tgt_x |-> x_max + 1, style |-> "arc3, rad=-0.3"]
    ELSE IF type_axes_info[typ].center_x < type_axes_info[target].center_x
         THEN [src_x |-> x_max, tgt_x |-> x_min, style |-> "arc3"]
         ELSE [src_x |-> x_min, tgt_x |-> x_max, style |-> "arc3"]

\* arrow_sides with "src_center <= tgt_center" for "src_center < tgt_center"
arrow_sides_le_center(typ, target, addr, ref) ==
    IF typ = target
    THEN IF addr < ref
         THEN [src_x |-> -2, tgt_x |-> -2, style |-> "arc3, rad=0.3"]
         ELSE [src_x |-> x_max + 1, tgt_x |-> x_max + 1, style |-> "arc3, rad=-0.3"]
    ELSE IF type_axes_info[typ].center_x <= type_axes_info[target].center_x
         THEN [src_x |-> x_max, tgt_x |-> x_min, style |-> "arc3"]
         ELSE [src_x |-> x_min, tgt_x |-> x_max, style |-> "arc3"]

\* the anchors and connection style of one arrow
arrow_sides(typ, target, addr, ref) ==
    IF typ = target
    THEN IF addr < ref
         THEN [src_x |-> -2, tgt_x |-> -2, style |-> "arc3, rad=0.3"]
         ELSE [src_x |-> x_max + 1, tgt_x |-> x_max + 1, style |-> "arc3, rad=-0.3"]
    ELSE IF type_axes_info[typ].center_x < type_axes_info[target].center_x
         THEN [src_x |-> x_max, tgt_x |-> x_min, style |-> "arc3"]
         ELSE [src_x |-> x_min, tgt_x |-> x_max, style |-> "arc3"]

\* the body of the inner loop for one capability: the arrows it adds.
\* src_y is source_y + 0.5 in tenths; tgt_addr is the integer part of the
\* target y (the random.uniform(0.1, 0.6) offset on top of it is cosmetic
\* and not kept).
arrows_of_cap(typ, cap) ==
    IF variant = "ClassVis" /\ cap.reference.kind = "none" THEN <<>>
    ELSE
      LET addr == IF variant = "ClassVis" THEN getAddress(cap)
                  ELSE address_val(cap)
      IN  IF addr.kind = "none" THEN <<>>
          ELSE
            LET target == target_type_of(addr.val)
            IN  IF target_skipped(target) THEN <<>>
                ELSE
                  LET sides == arrow_sides(typ, target.type, addr.val,
                                           cap.reference.val)
                  IN  <<[src |-> cap.id, src_type |-> typ,
                         tgt_type |-> target.type,
                         src_x |-> sides.src_x, tgt_x |-> sides.tgt_x,
                         style |-> sides.style,
                         src_y |-> 10 * type_info[typ].y_positions[cap.reference.val] + 5,
                         tgt_addr |-> addr.val]>>

RECURSIVE arrows_of_caps_break(_, _)
\* the inner loop with "break" for "continue": the first capability without
\* an arrow ends the loop
arrows_of_caps_break(typ, caps) ==
    IF caps = <<>> THEN <<>>
    ELSE IF arrows_of_cap(typ, Head(caps)) = <<>> THEN <<>>
    ELSE arrows_of_cap(typ, Head(caps)) \o arrows_of_caps_break(typ, Tail(caps))

RECURSIVE arrows_of_caps(_, _)
\* the inner loop over the capabilities of one type
arrows_of_caps(typ, caps) ==
    IF caps = <<>> THEN <<>>
    ELSE arrows_of_cap(typ, Head(caps)) \o arrows_of_caps(typ, Tail(caps))

\* the members at which cap.getAddress() raises (ClassVis only: the strict
\* variant catches the ValueError of int(str(...)), which is all it raises)
raising(caps) ==
    {j \in 1..Len(caps) :
        /\ variant = "ClassVis"
        /\ caps[j].reference.kind # "none"
        /\ getAddress(caps[j]).kind = "raise"}

\* lines 151-189 / 176-243: one iteration of the outer loop over types
DrawArrows ==
    /\ pc = "arrows"
    /\ arrow_i < Len(types)
    /\ LET typ == types[arrow_i + 1]
           caps == type_info[typ].caps
       IN  IF raising(caps) = {}
           THEN /\ arrows' = arrows \o arrows_of_caps(typ, caps)
                /\ arrow_i' = arrow_i + 1
                /\ pc' = pc
           ELSE /\ arrows' = arrows \o
                      arrows_of_caps(typ, SubSeq(caps, 1, SetMin(raising(caps)) - 1))
                /\ arrow_i' = arrow_i
                /\ pc' = "fault"
    /\ UNCHANGED <<variant, file_exists, data, stdout, capabilities,
                   type_caps, types, type_info, nrows, ncols, type_axes, rows,
                   empties, draw_i, type_axes_info>>

\* plt.show()
Show ==
    /\ pc = "arrows"
    /\ arrow_i = Len(types)
    /\ pc' = "done"
    /\ UNCHANGED <<variant, file_exists, data, stdout, capabilities, type_caps,
                   types, type_info, nrows, ncols, type_axes, rows, empties,
                   draw_i, type_axes_info, arrows, arrow_i>>

Next ==
    \/ Load
    \/ Group
    \/ PreCalc
    \/ Grid
    \/ DrawPanel
    \/ AxisInfo
    \/ DrawArrows
    \/ Show

Spec == Init /\ [][Next]_vars

(***************************************************************************)
(* What the input says, read off input.json without running the pipeline.  *)
(***************************************************************************)
AfterGroup == pc \in {"info", "grid", "draw", "arrows", "done"}
AfterInfo == pc \in {"grid", "draw", "arrows", "done"}
AfterGrid == pc \in {"draw", "arrows", "done"}

DataKeys == {data[i].Type : i \in DOMAIN data}
DataOfType(t) == {i \in DOMAIN data : data[i].Type = t}
HasRef(i) == data[i].Reference.kind \in {"int", "str"}
HasAddr(i) == data[i].Address.kind \in {"int", "str"}
RefOf(i) == data[i].Reference.val
AddrOf(i) == data[i].Address.val
DataRefs(t) == {RefOf(i) : i \in {j \in DataOfType(t) : HasRef(j)}}
DataMin(t) == IF DataRefs(t) = {} THEN 0 ELSE SetMin(DataRefs(t))
DataMax(t) == IF DataRefs(t) = {} THEN 1 ELSE SetMax(DataRefs(t))
\* the types whose inclusive range contains the address a
Hits(a) == {t \in DataKeys : DataMin(t) <= a /\ a <= DataMax(t)}
\* the lexicographically first of them
FirstHit(a) == CHOOSE t \in Hits(a) : \A u \in Hits(a) \ {t} : StrLess(t, u)
ArrowsFrom(i) == {k \in DOMAIN arrows : arrows[k].src = i}

\* the grid lookup of the design, by number of distinct types
TableShape(n) ==
    CASE n = 1 -> <<1, 1>>
      [] n = 2 -> <<1, 2>>
      [] n = 3 -> <<1, 3>>
      [] n = 4 -> <<2, 2>>
      [] n \in {5, 6} -> <<2, 3>>
      [] OTHER -> <<1, n>>

\* the grid column of a type: panels fill the cells row by row in sorted order
DataCol(t) ==
    Cardinality({u \in DataKeys : StrLess(u, t)})
        % TableShape(Cardinality(DataKeys))[2]
DataRow(t) ==
    Cardinality({u \in DataKeys : StrLess(u, t)})
        \div TableShape(Cardinality(DataKeys))[2]

(***************************************************************************)
(* C1.  Every descriptor that has a row and an integer address a gets an   *)
(* arrow to the first type, in sorted key order, whose inclusive range     *)
(* contains a, and gets no arrow only when no type's range contains a.     *)
(***************************************************************************)
C1_FirstMatchOrUnresolved ==
    pc = "done" =>
        \A i \in DOMAIN data :
            (HasRef(i) /\ HasAddr(i)) =>
                IF Hits(AddrOf(i)) = {}
                THEN ArrowsFrom(i) = {}
                ELSE /\ Cardinality(ArrowsFrom(i)) = 1
                     /\ \A k \in ArrowsFrom(i) :
                            arrows[k].tgt_type = FirstHit(AddrOf(i))

(***************************************************************************)
(* C2.  In every drawn panel the placeholders sit at exactly the integers  *)
(* of [min_ref, max_ref] that carry no descriptor row, one placeholder per *)
(* integer, so their number is the size of the range minus the number of   *)
(* distinct occupied rows.                                                 *)
(***************************************************************************)
C2_EmptySlots ==
    AfterGrid =>
        \A i \in 1..draw_i :
            LET t == types[i]
                occ == {rows[t][k].y : k \in DOMAIN rows[t]}
                lo == type_info[t].min
                hi == type_info[t].max
            IN  /\ occ \subseteq lo..hi
                /\ Range(empties[t]) = (lo..hi) \ occ
                /\ \A j, k \in DOMAIN empties[t] :
                       j # k => empties[t][j] # empties[t][k]
                /\ Len(empties[t]) = (hi - lo + 1) - Cardinality(occ)

\* a drawn panel where two descriptors share a row and a slot is empty
C2_Witness ==
    /\ pc = "done"
    /\ \E t \in Range(types) :
           /\ \E j, k \in DOMAIN rows[t] : j # k /\ rows[t][j].y = rows[t][k].y
           /\ Len(empties[t]) > 0

(***************************************************************************)
(* C3.  The grid shape is the lookup on the number n of distinct types:    *)
(* 1 -> 1x1, 2 -> 1x2, 3 -> 1x3, 4 -> 2x2, 5 and 6 -> 2x3, else 1xn.       *)
(***************************************************************************)
C3_GridShape ==
    AfterGrid => <<nrows, ncols>> = TableShape(Cardinality(DataKeys))

\* four types laid out two by two
C3_Witness == AfterGrid /\ Cardinality(DataKeys) = 4 /\ nrows = 2 /\ ncols = 2

(***************************************************************************)
(* C4.  An arrow that stays in its panel has both anchors at x = -2 with   *)
(* the positive-radius arc when address < reference, and both at x = 66    *)
(* with the negative-radius arc when address >= reference.                 *)
(***************************************************************************)
C4_IntraPanel ==
    \A k \in DOMAIN arrows :
        LET a == arrows[k]
        IN  a.src_type = a.tgt_type =>
                /\ a.src_x = a.tgt_x
                /\ AddrOf(a.src) < RefOf(a.src) =>
                       a.src_x = -2 /\ a.style = "arc3, rad=0.3"
                /\ AddrOf(a.src) >= RefOf(a.src) =>
                       a.src_x = 66 /\ a.style = "arc3, rad=-0.3"

\* a self-arrow whose address equals its reference, drawn on the right
C4_Witness ==
    \E k \in DOMAIN arrows :
        /\ arrows[k].src_type = arrows[k].tgt_type
        /\ AddrOf(arrows[k].src) = RefOf(arrows[k].src)
        /\ arrows[k].src_x = 66

(***************************************************************************)
(* C5.  An arrow between two panels leaves at x = 65 and arrives at x = -1 *)
(* when the source's grid column is left of the target's, and leaves at    *)
(* x = -1 and arrives at x = 65 otherwise (source to the right, or same    *)
(* column); it uses the direct style and its anchors are on opposite sides.*)
(***************************************************************************)
C5_CrossPanel ==
    \A k \in DOMAIN arrows :
        LET a == arrows[k]
        IN  a.src_type # a.tgt_type =>
                /\ a.style = "arc3"
                /\ a.src_x # a.tgt_x
                /\ DataCol(a.src_type) < DataCol(a.tgt_type) =>
                       a.src_x = 65 /\ a.tgt_x = -1
                /\ DataCol(a.src_type) >= DataCol(a.tgt_type) =>
                       a.src_x = -1 /\ a.tgt_x = 65

\* an arrow between two panels of the same column of a two-row grid
C5_Witness ==
    \E k \in DOMAIN arrows :
        /\ arrows[k].src_type # arrows[k].tgt_type
        /\ nrows = 2
        /\ DataCol(arrows[k].src_type) = DataCol(arrows[k].tgt_type)
        /\ DataRow(arrows[k].src_type) # DataRow(arrows[k].tgt_type)
        /\ arrows[k].src_x = -1

(***************************************************************************)
(* C6.  The groups partition the input by type, each group is in           *)
(* non-increasing order of reference, and members without a reference come *)
(* after every member that has one.                                        *)
(***************************************************************************)
C6_GroupsSortedAbsentLast ==
    AfterGroup =>
        /\ DOMAIN type_caps = DataKeys
        /\ \A t \in DOMAIN type_caps :
               LET g == type_caps[t]
               IN  /\ {g[k].id : k \in DOMAIN g} = DataOfType(t)
                   /\ Len(g) = Cardinality(DataOfType(t))
                   /\ \A j, k \in DOMAIN g :
                          (j < k /\ HasRef(g[j].id) /\ HasRef(g[k].id)) =>
                              RefOf(g[j].id) >= RefOf(g[k].id)
                   /\ \A j, k \in DOMAIN g :
                          (~HasRef(g[j].id) /\ HasRef(g[k].id)) => k < j

(***************************************************************************)
(* C7.  A panel's height is max(6, 1.5 * (max_ref - min_ref), 0.6 * count),*)
(* capped at 10 in the defensive variant; it is never below 6 and does not *)
(* decrease when the member count or the reference range grows.            *)
(***************************************************************************)
C7_PanelHeight ==
    AfterInfo =>
        \A t \in DOMAIN type_info :
            LET info == type_info[t]
                span == info.max - info.min
                n == Cardinality(DataOfType(t))
                raw == Max2(60, Max2(15 * span, 6 * n))
            IN  /\ info.height = IF variant = "ClassVis" THEN Min2(raw, 100) ELSE raw
                /\ info.height >= 60
                /\ panel_height(info.min, info.max, n + 1) >= info.height
                /\ panel_height(info.min, info.max + 1, n) >= info.height
                /\ panel_height(info.min - 1, info.max, n) >= info.height

\* a group of the defensive variant whose uncapped height exceeds the cap
C7_Witness ==
    /\ AfterInfo
    /\ variant = "ClassVis"
    /\ \E t \in DOMAIN type_info :
           /\ type_info[t].height = 100
           /\ 6 * Len(type_info[t].caps) > 100
           /\ 15 * (type_info[t].max - type_info[t].min) > 60

(***************************************************************************)
(* C8.  A descriptor whose address is not a number, or lies in no panel's  *)
(* range, loses only its own arrow: the run does not fault on it, its row  *)
(* is drawn at its reference, and the rows, the placeholders and every     *)
(* other descriptor's arrow are what the types, the references and that    *)
(* other descriptor's own address determine.                               *)
(***************************************************************************)
NonNumeric(i) == data[i].Address.kind \in {"text", "none"}
BadAddress(i) == NonNumeric(i) \/ (HasAddr(i) /\ Hits(AddrOf(i)) = {})

\* whether descriptor i gets an arrow, from its own address and the ranges
ArrowExpected(i) ==
    /\ HasRef(i)
    /\ HasAddr(i)
    /\ Hits(AddrOf(i)) # {}
    /\ variant = "ClassVis" => FirstHit(AddrOf(i)) # EmptyStr

\* which side the arrow of descriptor i leaves from
SrcSideExpected(i) ==
    LET tgt == FirstHit(AddrOf(i))
    IN  IF tgt = data[i].Type
        THEN (IF AddrOf(i) < RefOf(i) THEN -2 ELSE 66)
        ELSE (IF DataCol(data[i].Type) < DataCol(tgt) THEN 65 ELSE -1)

C8_LocalRecovery ==
    /\ pc = "fault" =>
           \E i \in DOMAIN data :
               data[i].Reference.kind = "inf" \/ data[i].Address.kind = "inf"
    /\ pc = "done" =>
        /\ \A i \in DOMAIN data :
               BadAddress(i) =>
                   /\ ArrowsFrom(i) = {}
                   /\ HasRef(i) =>
                          \E k \in DOMAIN rows[data[i].Type] :
                              rows[data[i].Type][k] = [id |-> i, y |-> RefOf(i)]
        /\ \A t \in DataKeys :
               /\ Range(rows[t]) =
                      {[id |-> i, y |-> RefOf(i)] :
                          i \in {j \in DataOfType(t) : HasRef(j)}}
               /\ Len(rows[t]) = Cardinality(Range(rows[t]))
               /\ Range(empties[t]) = (DataMin(t)..DataMax(t)) \ DataRefs(t)
        /\ \A i \in DOMAIN data :
               IF ArrowExpected(i)
               THEN /\ Cardinality(ArrowsFrom(i)) = 1
                    /\ \A k \in ArrowsFrom(i) :
                           /\ arrows[k].src_type = data[i].Type
                           /\ arrows[k].tgt_type = FirstHit(AddrOf(i))
                           /\ arrows[k].tgt_addr = AddrOf(i)
                           /\ arrows[k].src_x = SrcSideExpected(i)
               ELSE ArrowsFrom(i) = {}

\* a finished run where a descriptor with a row points outside every range,
\* one has a non-numeric address, and a later descriptor still has its arrow
C8_Witness ==
    /\ pc = "done"
    /\ \E i, j \in DOMAIN data :
           /\ i < j
           /\ data[i].Type = data[j].Type
           /\ HasRef(i)
           /\ BadAddress(i)
           /\ ArrowsFrom(i) = {}
           /\ ArrowsFrom(j) # {}

(***************************************************************************)
(* C9.  In the defensive variant a Reference that is missing or cannot be  *)
(* read as an integer gives a descriptor without reference and no fault;   *)
(* that descriptor does not count for its group's range (a group without   *)
(* references gets (0, 1)), is not an occupied row and has no row drawn.   *)
(***************************************************************************)
C9_AbsentReference ==
    variant = "ClassVis" =>
        /\ pc # "fault"
        /\ pc \notin {"load", "exited"} =>
               \A i \in DOMAIN data :
                   ~HasRef(i) => capabilities[i].reference = PyNone
        /\ AfterInfo =>
               \A t \in DOMAIN type_info :
                   /\ type_info[t].min = DataMin(t)
                   /\ type_info[t].max = DataMax(t)
                   /\ Range(type_info[t].y_positions) = DataRefs(t)
        /\ pc = "done" =>
               \A i \in DOMAIN data :
                   ~HasRef(i) =>
                       \A k \in DOMAIN rows[data[i].Type] :
                           rows[data[i].Type][k].id # i

(***************************************************************************)
(* C10.  The phases run in the order load, group, layout, draw panels,     *)
(* draw arrows, present, each at most once; no arrow exists before every   *)
(* panel is drawn and every centre recorded; the ranges do not change      *)
(* after layout; a missing input file ends the run after load with the     *)
(* error reported and nothing else done.                                   *)
(***************************************************************************)
Rank ==
    CASE pc = "load" -> 0
      [] pc = "group" -> 1
      [] pc = "info" -> 2
      [] pc = "grid" -> 3
      [] pc = "draw" -> 4
      [] pc = "arrows" -> 5
      [] pc = "done" -> 6
      [] OTHER -> 7

C10_Inv ==
    /\ (arrows # <<>> \/ arrow_i > 0) =>
           /\ pc \in {"arrows", "done", "fault"}
           /\ draw_i = Len(types)
           /\ DOMAIN type_axes_info = Range(types)
    /\ ~file_exists =>
           /\ pc \in {"load", "exited"}
           /\ capabilities = <<>>
           /\ DOMAIN type_caps = {}
           /\ types = <<>>
           /\ DOMAIN type_info = {}
           /\ nrows = 0
           /\ draw_i = 0
           /\ arrows = <<>>
    /\ pc = "exited" => ~file_exists /\ Len(stdout) = 1

C10_Step ==
    \* the phases follow each other; a run that ends early ends in load
    \* (missing file, fault) or faults while drawing arrows
    /\ pc' # pc =>
           \/ Rank' = Rank + 1 /\ Rank' <= 6
           \/ pc = "load" /\ pc' \in {"exited", "fault"}
           \/ pc = "arrows" /\ pc' = "fault"
    \* a step that stays in a phase is one iteration of its loop
    /\ pc' = pc =>
           \/ pc = "draw" /\ draw_i' = draw_i + 1 /\ arrows' = arrows
           \/ pc = "arrows" /\ arrow_i' = arrow_i + 1
                 /\ rows' = rows /\ empties' = empties
    \* nothing moves once the run has ended
    /\ pc \notin {"done", "exited", "fault"}
    \* layout is not revisited
    /\ AfterInfo => type_info' = type_info /\ type_caps' = type_caps
    /\ AfterGrid => nrows' = nrows /\ ncols' = ncols /\ type_axes' = type_axes
    /\ pc \in {"arrows", "done"} => type_axes_info' = type_axes_info

C10_PipelineOrder == [][C10_Step]_vars /\ []C10_Inv

\* a finished run over several panels with an arrow drawn
C10_Witness ==
    pc = "done" /\ Len(types) >= 2 /\ draw_i = Len(types) /\ arrows # <<>>

====
